---- MODULE Spec2Model ----
(***************************************************************************)
(* Floating-panel lifecycle of the three ng-bootstrap widgets              *)
(*   NgbInputDatepicker  (src/src/datepicker/datepicker-input.ts)          *)
(*   NgbPopover          (src/src/popover/popover.ts)                      *)
(*   NgbTypeahead and NgbTypeaheadWindow (src/unnamed/part_000)            *)
(*                                                                         *)
(* The widgets share no state, so one behaviour follows one instance: Init *)
(* picks the class of the instance (widget) and the actions of the other   *)
(* classes are disabled.  "window" is an NgbTypeaheadWindow component used *)
(* on its own, with its focusFirst input bound by the host template.       *)
(*                                                                         *)
(* Every method is a state transformer on the record of the instance; a    *)
(* handler is the composition of the methods it calls, in source order.    *)
(* The field calls of the record is the log of the outward calls (DOM,     *)
(* framework, callbacks, emitters) made by the handler that ran last.      *)
(***************************************************************************)
EXTENDS Integers, Sequences, FiniteSets, TLC

VARIABLES widget,    \* class of the instance under observation
          destroyed, \* ngOnDestroy has run
          dp,        \* NgbInputDatepicker instance
          po,        \* NgbPopover instance
          ta,        \* NgbTypeahead instance (with its NgbTypeaheadWindow)
          win,       \* standalone NgbTypeaheadWindow instance
          ev,        \* history: the handler that ran last
          pre,       \* history: snapshot taken when that handler started
          prev,      \* history: the handler before it and its snapshot
          since      \* history: what has happened since the panel was opened

vars == <<widget, destroyed, dp, po, ta, win, ev, pre, prev, since>>

-----------------------------------------------------------------------------
(* Bounds *)

MaxResults == 2     \* longest result list emitted by the results stream
MaxActiveIdx == 3   \* ArrowDown is not pressed beyond this activeIdx

-----------------------------------------------------------------------------
(* Values *)

\* JS null / undefined for a date
NullDate == [year |-> 0, month |-> 0, day |-> 0]

\* dates a form model or a parser can hand to the directive; the last one is
\* not a calendar date
DateStructs == { [year |-> 2016, month |-> 1,  day |-> 1],
                 [year |-> 2016, month |-> 1,  day |-> 2],
                 [year |-> 2016, month |-> 13, day |-> 1] }

IsValid(date) == date.month \in 1..12 /\ date.day \in 1..31

\* dates the popup's day grid offers for selection
GridDates == { d \in DateStructs : IsValid(d) }

\* NgbDatepickerService.toValidDate(date, defaultValue)
toValidDate(date, defaultValue) ==
    IF date # NullDate /\ IsValid(date) THEN date ELSE defaultValue

\* NgbDateParserFormatter.format(date)
format(date) ==
    IF date = NullDate THEN ""
    ELSE ToString(date.year) \o "-" \o ToString(date.month) \o "-" \o ToString(date.day)

\* text a user can leave in the input field
Texts == { format(d) : d \in DateStructs } \cup {"", "abc"}

\* NgbDateParserFormatter.parse(value)
parse(value) ==
    IF \E d \in DateStructs : format(d) = value
    THEN CHOOSE d \in DateStructs : format(d) = value
    ELSE NullDate

\* typeahead result items, and JS undefined for an item
Items == {"a", "b"}
Undefined == "undefined"

\* util.toString(value)
toString(value) == IF value = Undefined THEN "" ELSE value

\* an inputFormatter a host can bind
UpperCase(value) == CASE value = "a" -> "A" [] value = "b" -> "B" [] OTHER -> value

\* key codes of keydown events; 65 is a key outside the enum
Tab == 9
Enter == 13
Escape == 27
ArrowUp == 38
ArrowDown == 40
Key == {Tab, Enter, Escape, ArrowUp, ArrowDown}
KeyCodes == Key \cup {65}

\* scroll event targets
ScrollTargets == {"document", "element"}

\* one outward call
Call(fn) == [fn |-> fn, date |-> NullDate, text |-> ""]
CallD(fn, date) == [fn |-> fn, date |-> date, text |-> ""]
CallT(fn, text) == [fn |-> fn, date |-> NullDate, text |-> text]

Log(s, call) == [s EXCEPT !.calls = Append(@, call)]

RECURSIVE SeqsUpTo(_, _)
SeqsUpTo(S, n) ==
    IF n = 0 THEN {<<>>}
    ELSE LET shorter == SeqsUpTo(S, n - 1)
         IN shorter \cup { Append(q, x) : q \in {t \in shorter : Len(t) = n - 1}, x \in S }

-----------------------------------------------------------------------------
(* NgbInputDatepicker *)

DpInit == [ cRef |-> FALSE,                 \* _cRef # null
            model |-> NullDate,             \* _model
            ignoreUpdatePosition |-> FALSE, \* _ignoreUpdatePosition
            scrollListenerOn |-> FALSE,     \* the closure in _scrollListener is registered
            listeners |-> 0,                \* scroll listeners of this instance on document
            panels |-> 0,                   \* NgbDatepicker components created and not removed
            popupValue |-> NullDate,        \* value last written to the popup
            inputValue |-> "",              \* value property of the input element
            calls |-> <<>> ]

DpIsOpen(s) == s.cRef

DpWriteModelValueInputOnly(s, model) ==
    Log([s EXCEPT !.inputValue = format(model)], CallT("setValue", format(model)))

DpWriteModelValue(s, model) ==
    LET s1 == Log([s EXCEPT !.inputValue = format(model)], CallT("setValue", format(model)))
    IN IF DpIsOpen(s1)
       THEN Log(Log([s1 EXCEPT !.popupValue = model], CallD("popup.writeValue", model)),
                Call("onTouched"))
       ELSE s1

DpWriteValue(s, value) ==
    LET m == IF value # NullDate THEN toValidDate(value, NullDate) ELSE NullDate
    IN DpWriteModelValue([s EXCEPT !.model = m], m)

DpManualDateChange(s, value) ==
    LET m == toValidDate(parse(value), NullDate)
        s1 == Log([s EXCEPT !.model = m], CallD("onChange", m))
    IN DpWriteModelValue(s1, m)

DpCloseKeepRef(s) ==
    LET s1 == Log([s EXCEPT !.listeners = IF s.scrollListenerOn THEN @ - 1 ELSE @,
                            !.scrollListenerOn = FALSE],
                  Call("removeEventListener"))
    IN IF DpIsOpen(s1)
       THEN Log([s1 EXCEPT !.panels = @ - 1, !.popupValue = NullDate], Call("remove"))
       ELSE s1

DpClose(s) ==
    LET s1 == Log([s EXCEPT !.listeners = IF s.scrollListenerOn THEN @ - 1 ELSE @,
                            !.scrollListenerOn = FALSE],
                  Call("removeEventListener"))
    IN IF DpIsOpen(s1)
       THEN Log([s1 EXCEPT !.panels = @ - 1, !.cRef = FALSE, !.popupValue = NullDate],
                Call("remove"))
       ELSE s1

DpCreate(s) ==
    LET s1 == Log([s EXCEPT !.cRef = TRUE, !.panels = @ + 1], Call("createComponent"))
        s2 == Log([s1 EXCEPT !.popupValue = s1.model], CallD("popup.writeValue", s1.model))
    IN Log([s2 EXCEPT !.scrollListenerOn = TRUE, !.listeners = @ + 1],
           Call("addEventListener"))

DpOpenNoGuard(s) == DpCreate(s)

DpOpen(s) == IF ~DpIsOpen(s) THEN DpCreate(s) ELSE s

DpToggle(s) == IF DpIsOpen(s) THEN DpClose(s) ELSE DpOpen(s)

DpOnDateSelectChangeFirst(s, selectedDate) ==
    DpClose(DpWriteValue(Log(s, CallD("onChange", selectedDate)), selectedDate))

\* the callback given to the popup's registerOnChange
DpOnDateSelect(s, selectedDate) ==
    DpClose(Log(DpWriteValue(s, selectedDate), CallD("onChange", selectedDate)))

\* the scroll listener, run once per registration
DpScrollListener(s, target) ==
    IF s.listeners > 0 /\ target = "document"
    THEN [s EXCEPT !.ignoreUpdatePosition = TRUE]
    ELSE s

\* the ngZone.onStable subscriber
DpOnStable(s) ==
    LET s1 == IF s.cRef /\ ~s.ignoreUpdatePosition THEN Log(s, Call("positionElements")) ELSE s
    IN [s1 EXCEPT !.ignoreUpdatePosition = FALSE]

DpNgOnDestroy(s) == Log(DpClose(s), Call("unsubscribe"))

-----------------------------------------------------------------------------
(* PopupService (util/popup), the factory NgbPopover and NgbTypeahead create *)
(* their window with.  Works on any record with popupWindowRef and panels.   *)

\* PopupService.open(content, context): creates the window unless it holds one
PopupServiceOpen(s) ==
    IF ~s.popupWindowRef
    THEN Log([s EXCEPT !.popupWindowRef = TRUE, !.panels = @ + 1], Call("popup.open"))
    ELSE Log(s, Call("popup.open"))

\* PopupService.close(): removes the window it holds, if any
PopupServiceClose(s) ==
    IF s.popupWindowRef
    THEN Log([s EXCEPT !.popupWindowRef = FALSE, !.panels = @ - 1], Call("popup.close"))
    ELSE Log(s, Call("popup.close"))

-----------------------------------------------------------------------------
(* NgbPopover *)

PoInit == [ windowRef |-> FALSE,            \* _windowRef is set
            ignoreUpdatePosition |-> FALSE, \* _ignoreUpdatePosition
            scrollListenerOn |-> FALSE,     \* the closure in _scrollListener is registered
            listeners |-> 0,                \* scroll listeners of this instance on document
            popupWindowRef |-> FALSE,       \* the PopupService holds a window
            panels |-> 0,                   \* NgbPopoverWindow components created and not removed
            calls |-> <<>> ]

PoCreate(s) ==
    LET s1 == [PopupServiceOpen(s) EXCEPT !.windowRef = TRUE]
    IN Log([s1 EXCEPT !.scrollListenerOn = TRUE, !.listeners = @ + 1],
           Call("addEventListener"))

PoOpen(s) == IF ~s.windowRef THEN PoCreate(s) ELSE s

PoCloseKeepListener(s) ==
    [PopupServiceClose(Log(s, Call("removeEventListener"))) EXCEPT !.windowRef = FALSE]

PoClose(s) ==
    LET s1 == Log([s EXCEPT !.listeners = IF s.scrollListenerOn THEN @ - 1 ELSE @,
                            !.scrollListenerOn = FALSE],
                  Call("removeEventListener"))
    IN [PopupServiceClose(s1) EXCEPT !.windowRef = FALSE]

PoToggleAlwaysOpen(s) == PoOpen(s)

PoToggle(s) == IF s.windowRef THEN PoClose(s) ELSE PoOpen(s)

PoScrollListener(s, target) ==
    IF s.listeners > 0 /\ target = "document"
    THEN [s EXCEPT !.ignoreUpdatePosition = TRUE]
    ELSE s

PoNgAfterViewCheckedNoReset(s) ==
    IF s.windowRef /\ ~s.ignoreUpdatePosition THEN Log(s, Call("positionElements")) ELSE s

PoNgAfterViewChecked(s) ==
    LET s1 == IF s.windowRef /\ ~s.ignoreUpdatePosition
              THEN Log(s, Call("positionElements")) ELSE s
    IN [s1 EXCEPT !.ignoreUpdatePosition = FALSE]

PoNgOnDestroy(s) == Log(PoClose(s), Call("unregisterListeners"))

-----------------------------------------------------------------------------
(* NgbTypeaheadWindow *)

\* a window as constructed: activeIdx = 0, focusFirst = true, no results yet
NewWindow == [activeIdx |-> 0, focusFirst |-> TRUE, results |-> <<>>, term |-> ""]

\* results[activeIdx], with the source's 0-based index
WinGetActive(w) ==
    IF w.activeIdx \in 0..(Len(w.results) - 1) THEN w.results[w.activeIdx + 1] ELSE Undefined

WinMarkActive(w, activeIdx) == [w EXCEPT !.activeIdx = activeIdx]

WinNextAlwaysWrap(w) ==
    IF w.activeIdx = Len(w.results) - 1
    THEN [w EXCEPT !.activeIdx = (w.activeIdx + 1) % Len(w.results)]
    ELSE [w EXCEPT !.activeIdx = @ + 1]

WinNext(w) ==
    IF w.activeIdx = Len(w.results) - 1
    THEN [w EXCEPT !.activeIdx = IF w.focusFirst THEN (w.activeIdx + 1) % Len(w.results) ELSE -1]
    ELSE [w EXCEPT !.activeIdx = @ + 1]

WinPrev(w) ==
    IF w.activeIdx < 0 THEN [w EXCEPT !.activeIdx = Len(w.results) - 1]
    ELSE IF w.activeIdx = 0
         THEN [w EXCEPT !.activeIdx = IF w.focusFirst THEN Len(w.results) - 1 ELSE -1]
         ELSE [w EXCEPT !.activeIdx = @ - 1]

WinNgOnInit(w) == [w EXCEPT !.activeIdx = IF w.focusFirst THEN 0 ELSE -1]

-----------------------------------------------------------------------------
(* NgbTypeahead *)

\* the results stream emits null, or a list of at most MaxResults items
NullResults == <<"null">>
ResultLists == SeqsUpTo(Items, MaxResults)
Emissions == ResultLists \cup {NullResults}

InputFormatters == {"none", "upperCase"}

TaInit(inputFormatter) ==
          [ windowRef |-> FALSE,            \* _windowRef != null
            ignoreUpdatePosition |-> FALSE, \* _ignoreUpdatePosition
            scrollListenerOn |-> FALSE,     \* the closure in _scrollListener is registered
            listeners |-> 0,                \* scroll listeners of this instance on document
            popupWindowRef |-> FALSE,       \* the PopupService holds a window
            panels |-> 0,                   \* NgbTypeaheadWindow components created and not removed
            window |-> NewWindow,           \* _windowRef.instance while the popup is open
            inputValue |-> "",              \* value property of the input element
            inputFormatter |-> inputFormatter,
            calls |-> <<>> ]

TaIsPopupOpen(s) == s.windowRef

TaWriteValue(s, value) ==
    LET formattedValue ==
            IF value \notin {Undefined, ""} /\ s.inputFormatter # "none"
            THEN UpperCase(value) ELSE toString(value)
    IN Log([s EXCEPT !.inputValue = formattedValue], CallT("setValue", formattedValue))

TaClosePopup(s) ==
    LET s1 == Log([s EXCEPT !.listeners = IF s.scrollListenerOn THEN @ - 1 ELSE @,
                            !.scrollListenerOn = FALSE],
                  Call("removeEventListener"))
    IN [PopupServiceClose(s1) EXCEPT !.windowRef = FALSE, !.window = NewWindow]

TaCreate(s) ==
    LET s1 == [PopupServiceOpen(s) EXCEPT !.windowRef = TRUE,
                                          !.window = WinNgOnInit(NewWindow)]
    IN Log([s1 EXCEPT !.scrollListenerOn = TRUE, !.listeners = @ + 1],
           Call("addEventListener"))

TaOpenPopup(s) == IF ~s.windowRef THEN TaCreate(s) ELSE s

TaSelectResultCloseFirst(s, result) ==
    Log(Log(TaWriteValue(TaClosePopup(s), result), CallT("onChange", result)),
        CallT("selectItem.emit", result))

TaSelectResult(s, result) ==
    TaClosePopup(Log(Log(TaWriteValue(s, result), CallT("onChange", result)),
                     CallT("selectItem.emit", result)))

TaHandleKeyDownPreventAll(s, which) ==
    IF ~s.windowRef THEN s
    ELSE LET s1 == Log(s, Call("preventDefault"))
         IN CASE which = ArrowDown -> [s1 EXCEPT !.window = WinNext(@)]
              [] which = ArrowUp -> [s1 EXCEPT !.window = WinPrev(@)]
              [] which \in {Enter, Tab} -> TaSelectResult(s1, WinGetActive(s1.window))
              [] which = Escape -> TaClosePopup(s1)
              [] OTHER -> s1

TaHandleKeyDownEscapeIgnored(s, which) ==
    IF ~s.windowRef THEN s
    ELSE IF which \in Key
         THEN LET s1 == Log(s, Call("preventDefault"))
              IN CASE which = ArrowDown -> [s1 EXCEPT !.window = WinNext(@)]
                   [] which = ArrowUp -> [s1 EXCEPT !.window = WinPrev(@)]
                   [] which \in {Enter, Tab} -> TaSelectResult(s1, WinGetActive(s1.window))
                   [] which = Escape -> s1
         ELSE s

TaHandleKeyDown(s, which) ==
    IF ~s.windowRef THEN s
    ELSE IF which \in Key
         THEN LET s1 == Log(s, Call("preventDefault"))
              IN CASE which = ArrowDown -> [s1 EXCEPT !.window = WinNext(@)]
                   [] which = ArrowUp -> [s1 EXCEPT !.window = WinPrev(@)]
                   [] which \in {Enter, Tab} -> TaSelectResult(s1, WinGetActive(s1.window))
                   [] which = Escape -> TaClosePopup(s1)
         ELSE s

TaOnResultsNullOnly(s, results) ==
    IF results = NullResults
    THEN TaClosePopup(s)
    ELSE LET s1 == TaOpenPopup(s)
         IN [s1 EXCEPT !.window.results = results, !.window.term = s1.inputValue]

\* the subscriber of the results stream, set up by ngOnInit
TaOnResults(s, results) ==
    IF results = NullResults \/ Len(results) = 0
    THEN TaClosePopup(s)
    ELSE LET s1 == TaOpenPopup(s)
         IN [s1 EXCEPT !.window.results = results, !.window.term = s1.inputValue]

\* onChange(value), the (input) host listener; the browser has put value in the element
TaOnChange(s, value) ==
    Log(Log([s EXCEPT !.inputValue = value], CallT("onChange", value)),
        CallT("valueChanges.next", value))

TaScrollListener(s, target) ==
    IF s.listeners > 0 /\ target = "document"
    THEN [s EXCEPT !.ignoreUpdatePosition = TRUE]
    ELSE s

TaNgAfterViewCheckedFlagIgnored(s) ==
    LET s1 == IF s.windowRef THEN Log(s, Call("positionElements")) ELSE s
    IN [s1 EXCEPT !.ignoreUpdatePosition = FALSE]

TaNgAfterViewChecked(s) ==
    LET s1 == IF s.windowRef /\ ~s.ignoreUpdatePosition
              THEN Log(s, Call("positionElements")) ELSE s
    IN [s1 EXCEPT !.ignoreUpdatePosition = FALSE]

TaNgOnDestroy(s) == Log(TaClosePopup(s), Call("unsubscribe"))

\* a click on a result row: the row's (click) handler emits select, which runs
\* _selectResult; the click then reaches the (document:click) host listener
TaRowClick(s, item) == TaClosePopup(TaSelectResult(Log(s, CallT("select.emit", item)), item))

-----------------------------------------------------------------------------
(* History *)

Begin(s) == [s EXCEPT !.calls = <<>>]

Snapshot ==
    CASE widget = "datepicker" -> [open |-> dp.cRef, ignore |-> dp.ignoreUpdatePosition,
                                   active |-> "", idx |-> 0,
                                   fresh |-> since.fresh, scrolled |-> since.scrolled]
      [] widget = "popover" -> [open |-> po.windowRef, ignore |-> po.ignoreUpdatePosition,
                                active |-> "", idx |-> 0,
                                fresh |-> since.fresh, scrolled |-> since.scrolled]
      [] widget = "typeahead" -> [open |-> ta.windowRef, ignore |-> ta.ignoreUpdatePosition,
                                  active |-> WinGetActive(ta.window),
                                  idx |-> ta.window.activeIdx,
                                  fresh |-> since.fresh, scrolled |-> since.scrolled]
      [] OTHER -> [open |-> FALSE, ignore |-> FALSE,
                   active |-> WinGetActive(win), idx |-> win.activeIdx,
                   fresh |-> since.fresh, scrolled |-> since.scrolled]

\* since.fresh: the panel is open and no layout tick has run since it was
\* opened; since.scrolled: a document scroll has arrived in that time
Track(op, openAfter) ==
    since' = IF ~openAfter THEN [fresh |-> FALSE, scrolled |-> FALSE]
             ELSE IF ~Snapshot.open THEN [fresh |-> TRUE, scrolled |-> FALSE]
             ELSE IF op = "tick" THEN [fresh |-> FALSE, scrolled |-> FALSE]
             ELSE IF op = "scrollDocument" /\ since.fresh
                  THEN [fresh |-> TRUE, scrolled |-> TRUE]
             ELSE since

\* the handlers whose name is kept in prev, for the properties about two
\* handlers in a row
PairedOps == {"init", "toggle", "close", "tick", "scrollDocument"}

\* emitted is the value the results stream emitted, for the handler of an
\* emission, and the empty list for every other handler
RecordEmission(op, key, emitted, openAfter) ==
    /\ ev' = [op |-> op, key |-> key, emitted |-> emitted]
    /\ pre' = Snapshot
    /\ prev' = IF ev.op \in PairedOps
               THEN [op |-> ev.op, open |-> pre.open, ignore |-> pre.ignore]
               ELSE [op |-> "other", open |-> FALSE, ignore |-> FALSE]
    /\ Track(op, openAfter)

Record(op, key, openAfter) == RecordEmission(op, key, <<>>, openAfter)

-----------------------------------------------------------------------------
(* Actions of the datepicker input *)

Dp(op, key, s) ==
    /\ widget = "datepicker"
    /\ ~destroyed
    /\ dp' = s
    /\ Record(op, key, s.cRef)
    /\ UNCHANGED <<widget, destroyed, po, ta, win>>

DpOpenCall == Dp("open", 0, DpOpen(Begin(dp)))
DpCloseCall == Dp("close", 0, DpClose(Begin(dp)))
DpToggleCall == Dp("toggle", 0, DpToggle(Begin(dp)))
DpKeyupEsc == Dp("escape", 0, DpClose(Begin(dp)))
DpWriteValueCall == \E value \in DateStructs \cup {NullDate} :
    Dp("writeValue", 0, DpWriteValue(Begin(dp), value))
DpChange == \E value \in Texts :
    Dp("change", 0, DpManualDateChange(Begin(dp), value))
DpDateSelect == \E d \in GridDates :
    /\ dp.cRef
    /\ Dp("select", 0, DpOnDateSelect(Begin(dp), d))
DpScroll == \E target \in ScrollTargets :
    Dp(IF target = "document" THEN "scrollDocument" ELSE "scrollElement", 0,
       DpScrollListener(Begin(dp), target))
DpOutsideClick == Dp("outsideClick", 0, Begin(dp))
DpTick == Dp("tick", 0, DpOnStable(Begin(dp)))
DpDestroy ==
    /\ widget = "datepicker"
    /\ ~destroyed
    /\ destroyed' = TRUE
    /\ dp' = DpNgOnDestroy(Begin(dp))
    /\ Record("destroy", 0, FALSE)
    /\ UNCHANGED <<widget, po, ta, win>>

-----------------------------------------------------------------------------
(* Actions of the popover *)

Po(op, s) ==
    /\ widget = "popover"
    /\ ~destroyed
    /\ po' = s
    /\ Record(op, 0, s.windowRef)
    /\ UNCHANGED <<widget, destroyed, dp, ta, win>>

\* open, close and toggle are called by the host or by the trigger listeners
PoOpenCall == Po("open", PoOpen(Begin(po)))
PoCloseCall == Po("close", PoClose(Begin(po)))
PoToggleCall == Po("toggle", PoToggle(Begin(po)))
PoScroll == \E target \in ScrollTargets :
    Po(IF target = "document" THEN "scrollDocument" ELSE "scrollElement",
       PoScrollListener(Begin(po), target))
\* the directive listens to no document click and to no key
PoOutsideClick == Po("outsideClick", Begin(po))
PoEscape == Po("escape", Begin(po))
PoTick == Po("tick", PoNgAfterViewChecked(Begin(po)))
PoDestroy ==
    /\ widget = "popover"
    /\ ~destroyed
    /\ destroyed' = TRUE
    /\ po' = PoNgOnDestroy(Begin(po))
    /\ Record("destroy", 0, FALSE)
    /\ UNCHANGED <<widget, dp, ta, win>>

-----------------------------------------------------------------------------
(* Actions of the typeahead *)

TaEmission(op, key, s, emitted) ==
    /\ widget = "typeahead"
    /\ ~destroyed
    /\ ta' = s
    /\ RecordEmission(op, key, emitted, s.windowRef)
    /\ UNCHANGED <<widget, destroyed, dp, po, win>>

Ta(op, key, s) == TaEmission(op, key, s, <<>>)

TaInput == \E value \in {"", "a", "b"} :
    Ta("input", 0, TaOnChange(Begin(ta), value))
TaResults == \E results \in Emissions :
    TaEmission(IF results = NullResults \/ Len(results) = 0 THEN "noResults" ELSE "results",
               0, TaOnResults(Begin(ta), results), results)
TaWriteValueCall == \E value \in Items \cup {Undefined} :
    Ta("writeValue", 0, TaWriteValue(Begin(ta), value))
\* after a shorter result list has replaced a longer one, activeIdx can lie
\* beyond the last row, and next() then increments it without limit
TaKeyDown == \E which \in KeyCodes :
    /\ which = ArrowDown => ta.window.activeIdx < MaxActiveIdx
    /\ Ta(IF ta.windowRef /\ which \in {Enter, Tab} THEN "select"
       ELSE IF which = Escape THEN "escape" ELSE "keydown",
       which, TaHandleKeyDown(Begin(ta), which))
TaMouseEnter == \E idx \in 0..(Len(ta.window.results) - 1) :
    /\ ta.windowRef
    /\ Ta("mouseenter", 0, [Begin(ta) EXCEPT !.window = WinMarkActive(@, idx)])
TaClick == \E idx \in 1..Len(ta.window.results) :
    /\ ta.windowRef
    /\ Ta("select", 0, TaRowClick(Begin(ta), ta.window.results[idx]))
TaDocumentClick == Ta("outsideClick", 0, TaClosePopup(Begin(ta)))
TaScroll == \E target \in ScrollTargets :
    Ta(IF target = "document" THEN "scrollDocument" ELSE "scrollElement", 0,
       TaScrollListener(Begin(ta), target))
TaTick == Ta("tick", 0, TaNgAfterViewChecked(Begin(ta)))
TaDestroy ==
    /\ widget = "typeahead"
    /\ ~destroyed
    /\ destroyed' = TRUE
    /\ ta' = TaNgOnDestroy(Begin(ta))
    /\ Record("destroy", 0, FALSE)
    /\ UNCHANGED <<widget, dp, po, win>>

-----------------------------------------------------------------------------
(* Actions of a standalone typeahead window *)

Win(op, w) ==
    /\ widget = "window"
    /\ win' = w
    /\ Record(op, 0, FALSE)
    /\ UNCHANGED <<widget, destroyed, dp, po, ta>>

\* the framework runs ngOnInit once, before any template event
WinInitCall == ev.op = "init" /\ Win("ngOnInit", WinNgOnInit(win))
WinNextCall == ev.op # "init" /\ Win("next", WinNext(win))
WinPrevCall == ev.op # "init" /\ Win("prev", WinPrev(win))
WinMouseEnter == \E idx \in 0..(Len(win.results) - 1) :
    ev.op # "init" /\ Win("mouseenter", WinMarkActive(win, idx))

-----------------------------------------------------------------------------

Widgets == {"datepicker", "popover", "typeahead", "window"}

Init ==
    /\ widget \in Widgets
    /\ destroyed = FALSE
    /\ dp = DpInit
    /\ po = PoInit
    /\ \E f \in InputFormatters : ta = TaInit(IF widget = "typeahead" THEN f ELSE "none")
    /\ \E focusFirst \in BOOLEAN, results \in ResultLists \ {<<>>} :
           win = IF widget = "window"
                 THEN [NewWindow EXCEPT !.focusFirst = focusFirst, !.results = results]
                 ELSE NewWindow
    /\ ev = [op |-> "init", key |-> 0, emitted |-> <<>>]
    /\ pre = [open |-> FALSE, ignore |-> FALSE, active |-> "", idx |-> 0,
              fresh |-> FALSE, scrolled |-> FALSE]
    /\ prev = [op |-> "init", open |-> FALSE, ignore |-> FALSE]
    /\ since = [fresh |-> FALSE, scrolled |-> FALSE]

Next ==
    \/ DpOpenCall \/ DpCloseCall \/ DpToggleCall \/ DpKeyupEsc
    \/ DpWriteValueCall \/ DpChange \/ DpDateSelect
    \/ DpScroll \/ DpOutsideClick \/ DpTick \/ DpDestroy
    \/ PoOpenCall \/ PoCloseCall \/ PoToggleCall
    \/ PoScroll \/ PoOutsideClick \/ PoEscape \/ PoTick \/ PoDestroy
    \/ TaInput \/ TaResults \/ TaWriteValueCall \/ TaKeyDown \/ TaMouseEnter
    \/ TaClick \/ TaDocumentClick \/ TaScroll \/ TaTick \/ TaDestroy
    \/ WinInitCall \/ WinNextCall \/ WinPrevCall \/ WinMouseEnter

Spec == Init /\ [][Next]_vars

-----------------------------------------------------------------------------
(* Observations the properties are stated on *)

\* the record of the instance under observation
Self == CASE widget = "datepicker" -> dp
          [] widget = "popover" -> po
          [] widget = "typeahead" -> ta
          [] OTHER -> [PoInit EXCEPT !.calls = <<>>]

\* the panel reference is present
PanelRef == IF widget = "datepicker" THEN dp.cRef ELSE Self.windowRef

\* floating panels created and not yet removed
Panels == Self.panels

IgnoreUpdatePosition == Self.ignoreUpdatePosition

Calls == Self.calls

\* positions in the call log of the last handler where fn was called
CallsOf(fn) == { i \in 1..Len(Calls) : Calls[i].fn = fn }

Positioned == CallsOf("positionElements") # {}

PanelWidgets == {"datepicker", "popover", "typeahead"}
ScrollOps == {"scrollDocument", "scrollElement"}

-----------------------------------------------------------------------------
(* Properties *)

\* C1: every widget instance has at most one floating panel that is created
\* and not yet removed; open() / _openPopup() called while a panel is open
\* creates no second panel.
C1_AtMostOnePanel ==
    /\ dp.panels <= 1 /\ po.panels <= 1 /\ ta.panels <= 1
    /\ (ev.op \in {"open", "results"} /\ pre.open) =>
           (Panels = 1 /\ CallsOf("createComponent") = {})

C1_Witness ==
    widget = "datepicker" /\ ev.op = "open" /\ pre.open /\ dp.cRef /\ dp.panels = 1

\* C2: for the datepicker input and the popover, the open state after
\* toggle() is the negation of the open state before it, and two consecutive
\* toggle() calls restore the original open state.
C2_ToggleNegates ==
    (widget \in {"datepicker", "popover"} /\ ev.op = "toggle") =>
        /\ PanelRef = ~pre.open
        /\ prev.op = "toggle" => PanelRef = prev.open

C2_Witness ==
    widget = "popover" /\ ev.op = "toggle" /\ prev.op = "toggle"
        /\ prev.open /\ ~pre.open /\ po.windowRef

\* C3 as stated: in every widget, an outside click, a scroll or an escape key
\* that finds the panel open leaves it closed.
C3_ClosedOnClickScrollEscape ==
    (widget \in PanelWidgets /\ pre.open
        /\ ev.op \in {"outsideClick", "escape"} \cup ScrollOps) => ~PanelRef

\* C3: the typeahead closes its panel on a document click and on an Escape
\* keydown and the datepicker input on an Escape keyup; a scroll closes or
\* opens no panel in any widget, an outside click leaves the datepicker and
\* the popover as they are, and so does an escape key for the popover.
C3_TearDownEvents ==
    /\ (widget = "typeahead" /\ ev.op \in {"outsideClick", "escape"}) => ~PanelRef
    /\ (widget = "datepicker" /\ ev.op = "escape") => ~PanelRef
    /\ (widget \in PanelWidgets /\ ev.op \in ScrollOps) => PanelRef = pre.open
    /\ (widget = "datepicker" /\ ev.op = "outsideClick") => PanelRef = pre.open
    /\ (widget = "popover" /\ ev.op \in {"outsideClick", "escape"}) => PanelRef = pre.open

C3_Witness ==
    widget = "typeahead" /\ ev.op = "escape" /\ ev.key = Escape /\ pre.open /\ ~ta.windowRef

\* C4: the flag is one-shot.  A document scroll that finds the panel open
\* sets it and the next tick does not position; every tick resets it, so a
\* tick that directly follows a tick positions the panel if it is open; a
\* scroll whose target is not the document leaves the flag as it is.
C4_OneShotFlag ==
    widget \in PanelWidgets =>
        /\ ev.op = "tick" => ~IgnoreUpdatePosition
        /\ (ev.op = "scrollDocument" /\ pre.open) => IgnoreUpdatePosition
        /\ (ev.op = "tick" /\ prev.op = "scrollDocument" /\ prev.open) => ~Positioned
        /\ (ev.op = "tick" /\ prev.op = "tick" /\ pre.open) => Positioned
        /\ ev.op = "scrollElement" => IgnoreUpdatePosition = pre.ignore

C4_Witness ==
    widget = "popover" /\ ev.op = "tick" /\ prev.op = "tick" /\ prev.open /\ prev.ignore
        /\ pre.open /\ Positioned

\* C5: a layout tick positions the panel if and only if the panel reference
\* is present and the flag is false at that tick; a tick that finds the
\* widget without a panel positions nothing.
C5_PositionOnlyWhileOpen ==
    (widget \in PanelWidgets /\ ev.op = "tick") =>
        /\ Positioned <=> (pre.open /\ ~pre.ignore)
        /\ Panels = 0 => ~Positioned

C5_Witness ==
    widget = "typeahead" /\ ev.op = "tick" /\ pre.open /\ ~pre.ignore /\ Positioned

\* C6: isOpen() of the datepicker and isPopupOpen() of the typeahead are true
\* exactly when a panel created by the widget exists; they are false after
\* close() / closePopup() and true after open() / _openPopup().
C6_OpenIffPanel ==
    /\ DpIsOpen(dp) <=> dp.panels = 1
    /\ ~DpIsOpen(dp) <=> dp.panels = 0
    /\ TaIsPopupOpen(ta) <=> ta.panels = 1
    /\ ~TaIsPopupOpen(ta) <=> ta.panels = 0
    /\ (widget = "datepicker" /\ ev.op \in {"close", "escape", "destroy"}) => ~DpIsOpen(dp)
    /\ (widget = "datepicker" /\ ev.op = "open") => DpIsOpen(dp)
    /\ (widget = "typeahead" /\ ev.op \in {"outsideClick", "escape", "noResults", "destroy"})
           => ~TaIsPopupOpen(ta)
    /\ (widget = "typeahead" /\ ev.op = "results") => TaIsPopupOpen(ta)

C6_Witness ==
    widget = "datepicker" /\ ev.op = "close" /\ pre.open /\ ~DpIsOpen(dp) /\ dp.panels = 0

\* C7: whenever the datepicker popup is open, the value last written to the
\* popup is the directive's model; open() writes the model to the new popup.
C7_PopupShowsModel ==
    widget = "datepicker" =>
        /\ dp.cRef => dp.popupValue = dp.model
        /\ (ev.op = "open" /\ ~pre.open) =>
               \E i \in CallsOf("popup.writeValue") : dp.calls[i].date = dp.model

C7_Witness ==
    widget = "datepicker" /\ ev.op = "change" /\ pre.open /\ dp.cRef
        /\ dp.model # NullDate /\ dp.popupValue = dp.model

\* C8: a date selection in the open popup writes the selected date to the
\* model and the input field, then calls onChange exactly once with the
\* selected date, then closes the popup; afterwards the popup is closed and
\* no scroll listener is registered.
C8_DateSelectOrder ==
    (widget = "datepicker" /\ ev.op = "select") =>
        /\ Cardinality(CallsOf("onChange")) = 1
        /\ \A c \in CallsOf("onChange") :
              /\ dp.calls[c].date \in GridDates
              /\ dp.model = dp.calls[c].date
              /\ dp.inputValue = format(dp.calls[c].date)
              /\ \E w \in CallsOf("setValue") :
                    w < c /\ dp.calls[w].text = format(dp.calls[c].date)
              /\ \E w \in CallsOf("popup.writeValue") :
                    w < c /\ dp.calls[w].date = dp.calls[c].date
              /\ CallsOf("remove") # {}
              /\ \A r \in CallsOf("remove") \cup CallsOf("removeEventListener") : c < r
        /\ ~dp.cRef /\ dp.panels = 0
        /\ dp.listeners = 0 /\ ~dp.scrollListenerOn

C8_Witness ==
    widget = "datepicker" /\ ev.op = "select" /\ pre.open /\ ~dp.cRef
        /\ dp.model \in GridDates /\ Cardinality(CallsOf("onChange")) = 1

\* the item a typeahead selection is about: the active row for Enter / Tab,
\* the clicked row for a click
SelectedItem ==
    IF ev.key \in {Enter, Tab} THEN pre.active
    ELSE ta.calls[CHOOSE i \in CallsOf("select.emit") : TRUE].text

Window == IF widget = "typeahead" THEN ta.window ELSE win

NextOp == \/ widget = "window" /\ ev.op = "next"
          \/ widget = "typeahead" /\ ev.op = "keydown" /\ ev.key = ArrowDown /\ pre.open
PrevOp == \/ widget = "window" /\ ev.op = "prev"
          \/ widget = "typeahead" /\ ev.op = "keydown" /\ ev.key = ArrowUp /\ pre.open

\* C10: ngOnInit sets activeIdx to 0 when focusFirst is true and to -1
\* otherwise; with n >= 1 results next() goes from the last row to row 0 when
\* focusFirst is true and to -1 otherwise, and otherwise increments; prev()
\* goes from row 0 to row n-1 when focusFirst is true and to -1 otherwise,
\* from -1 to row n-1, and otherwise decrements.
C10_FocusFirstNavigation ==
    LET n == Len(Window.results)
        focusFirst == Window.focusFirst
    IN /\ (widget = "window" /\ ev.op = "ngOnInit") =>
              Window.activeIdx = IF focusFirst THEN 0 ELSE -1
       /\ (NextOp /\ n >= 1) =>
              Window.activeIdx = IF pre.idx = n - 1 THEN (IF focusFirst THEN 0 ELSE -1)
                                 ELSE pre.idx + 1
       /\ (PrevOp /\ n >= 1) =>
              Window.activeIdx = IF pre.idx = 0 THEN (IF focusFirst THEN n - 1 ELSE -1)
                                 ELSE IF pre.idx = -1 THEN n - 1
                                 ELSE pre.idx - 1

C10_Witness ==
    widget = "window" /\ ~win.focusFirst /\ ev.op = "next"
        /\ pre.idx = Len(win.results) - 1 /\ win.activeIdx = -1

\* C11: after the typeahead has handled an emission of the results stream,
\* the popup is open if and only if the emission is a non-empty list; when
\* it is open the window's results are the emission and its term is the
\* text of the input element.
C11_PopupFollowsResults ==
    (widget = "typeahead" /\ ev.op \in {"results", "noResults"}) =>
        /\ ta.windowRef <=> (ev.emitted # NullResults /\ Len(ev.emitted) > 0)
        /\ ta.windowRef => /\ ta.window.results = ev.emitted
                           /\ ta.window.term = ta.inputValue

C11_Witness ==
    widget = "typeahead" /\ ev.op = "results" /\ pre.open /\ ta.windowRef
        /\ Len(ev.emitted) = 1 /\ ta.window.results = ev.emitted
        /\ ta.inputValue # "" /\ ta.window.term = ta.inputValue

\* the step is the typeahead's keydown handler
KeyDownStep == widget = "typeahead" /\ ev'.op \in {"keydown", "escape", "select"}
                   /\ ev'.key \in KeyCodes

\* C12: with the popup closed a keydown changes no state of the typeahead
\* and is not prevented; with the popup open a key outside Tab, Enter,
\* Escape, ArrowUp, ArrowDown changes no state and is not prevented, each of
\* the five keys is prevented, and Escape closes the popup without writing
\* a value or emitting selectItem.
C12_KeyDownFrame ==
    [][ KeyDownStep =>
          /\ (~ta.windowRef \/ ev'.key \notin Key) => ta' = Begin(ta)
          /\ (ta.windowRef /\ ev'.key \in Key) =>
                 \E i \in 1..Len(ta'.calls) : ta'.calls[i].fn = "preventDefault"
          /\ (ta.windowRef /\ ev'.key = Escape) =>
                 /\ ~ta'.windowRef
                 /\ ta'.inputValue = ta.inputValue
                 /\ \A i \in 1..Len(ta'.calls) :
                        ta'.calls[i].fn \notin {"setValue", "onChange", "selectItem.emit"}
      ]_vars

C12_Witness ==
    widget = "typeahead" /\ ev.op = "escape" /\ ev.key = Escape /\ pre.open
        /\ ~ta.windowRef /\ ta.inputValue # ""
        /\ CallsOf("preventDefault") # {} /\ CallsOf("selectItem.emit") = {}

\* C13: in every reachable state of each widget, the number of scroll
\* listeners the widget has registered on the document is 1 if its panel is
\* open and 0 if it is closed.
C13_ListenerWhileOpen ==
    /\ dp.listeners = IF dp.cRef THEN 1 ELSE 0
    /\ po.listeners = IF po.windowRef THEN 1 ELSE 0
    /\ ta.listeners = IF ta.windowRef THEN 1 ELSE 0

C13_Witness ==
    widget = "popover" /\ ev.op = "open" /\ prev.op = "close" /\ prev.open /\ ~pre.open
        /\ po.windowRef /\ po.listeners = 1

\* C14: the first layout tick after a panel is opened positions that panel
\* unless a document scroll has arrived since it was opened.
C14_FirstTickPositions ==
    (widget \in PanelWidgets /\ ev.op = "tick" /\ pre.open /\ pre.fresh /\ ~pre.scrolled)
        => Positioned

====
